---------------------------- MODULE Spec2Model ----------------------------
(***************************************************************************)
(* Model of the Darkroom Booth capture core.                               *)
(*                                                                         *)
(*   - the two Camera backends (camera_utils/camera_canon.py,              *)
(*     camera_utils/camera_opencv.py) as pure operators on a record of     *)
(*     the object's fields; every call returns [dev, ret, exc, ev]: the    *)
(*     object after the call, the returned value, whether an exception     *)
(*     left the method, and the calls made on the library/hardware.        *)
(*   - SpecDev: one Camera object of either backend driven by an           *)
(*     arbitrary sequence of interface calls.                              *)
(*   - Spec: the session manager of ui.py (UserInterface), which owns a    *)
(*     CanonCamera and drives it from Tk handlers.                         *)
(*   - SpecArrange: CameraManager._arrange_boomerang_frames applied to     *)
(*     every short list of frames.                                         *)
(*   - SpecCounts: background save tasks calling                           *)
(*     FileManager.increment_count, statement by statement.                *)
(*   - SpecGetCount: FileManager.get_count on every state of the counts    *)
(*     file.                                                               *)
(*   - SpecSave: the save threads started by UserInterface.save,           *)
(*     statement by statement, beside the UI thread.                       *)
(*   - SpecTimer: the countdown threads started by                         *)
(*     UserInterface._start_timer, statement by statement, beside the UI   *)
(*     thread.                                                             *)
(*                                                                         *)
(* Library and hardware outcomes (gphoto2, cv2) are chosen by the          *)
(* environment with \E.  gphoto2's Camera.exit and cv2's                   *)
(* VideoCapture.release report no error (gp_camera_exit returns GP_OK).    *)
(***************************************************************************)
EXTENDS Integers, Sequences, FiniteSets, TLC

\* ------------------------------------------------------------------ bounds
\* Largest clock value of the device harness (seconds).
MaxTime == 3

\* How long after a session's deadline the clock is followed.
MaxLate == 1

\* Most frames a session appends to a buffer.
MaxFrames == 2

\* The history counters (release() calls, orphaned objects) stop here.
MaxCount == 2

\* Most sessions the user begins.
MaxSessions == 2

\* Longest frame list handed to CameraManager._arrange_boomerang_frames.
MaxSeqLen == 4

\* Most calls of FileManager.increment_count that are begun.
MaxCalls == 3

\* How deep the recursion of FileManager._load_counts is followed.
MaxDepth == 3

\* ------------------------------------------------------- program constants
\* max_retries of CanonCamera.initialize and OpenCVCamera.initialize.
max_retries == 3

\* None, for video_start_time.
NoTime == -1

\* None, for a path; the local path of a DSLR download; the path
\* start_video_recording derives from the clock.
NoPath == <<>>
CanonPath == <<"videos", "latest_video">>
OpenCVPath(t) == <<"videos", "opencv_video", t>>

Append2(s, a, b) == Append(Append(s, a), b)

\* =====================================================================
\* camera_utils/camera_canon.py : class CanonCamera
\* =====================================================================

\* CanonCamera.__init__
CanonCamera_new ==
    [ camera           |-> "None",
      context          |-> "None",
      initialized      |-> FALSE,
      recording        |-> FALSE,
      video_start_time |-> NoTime ]

CanonCamera_is_initialized(d) == d.initialized

CanonCamera_is_recording(d) == d.recording

\* One pass of the retry loop of initialize() and the passes after it.
\* outs[attempt + 1] is what gphoto2 does at this attempt: "ok", or "err"
\* (an exception from Camera.init or from the configuration calls).
RECURSIVE CanonCamera_attempt(_, _, _, _)
CanonCamera_attempt(d, outs, attempt, ev) ==
    LET d1  == [d EXCEPT !.context = "obj", !.camera = "obj"]
        ev1 == Append(ev, "init")
    IN  IF outs[attempt + 1] = "ok"
        THEN [ dev |-> [d1 EXCEPT !.initialized = TRUE],
               ret |-> TRUE, exc |-> FALSE, ev |-> ev1 ]
        ELSE IF attempt < max_retries - 1
        THEN CanonCamera_attempt(d1, outs, attempt + 1,
                                 Append2(ev1, "reset_usb", "sleep"))
        ELSE \* raise, caught by the outer handler
             [ dev |-> [d1 EXCEPT !.initialized = FALSE],
               ret |-> FALSE, exc |-> FALSE, ev |-> ev1 ]

\* An initialize() that resets the USB port once more before it returns.
CanonCamera_initialize_resets_after(d, outs) ==
    LET r == CanonCamera_attempt(d, outs, 0, <<"kill_gphoto2">>)
    IN  [r EXCEPT !.ev = Append2(@, "reset_usb", "sleep")]

\* CanonCamera.initialize
CanonCamera_initialize(d, outs) ==
    CanonCamera_attempt(d, outs, 0, <<"kill_gphoto2">>)

\* CanonCamera.capture_frame; hw is the outcome of capture_preview.
CanonCamera_capture_frame(d, hw) ==
    IF ~CanonCamera_is_initialized(d)
    THEN [ dev |-> d, ret |-> FALSE, frame |-> "None", exc |-> FALSE, ev |-> <<>> ]
    ELSE IF hw = "ok"
    THEN [ dev |-> d, ret |-> TRUE, frame |-> "frame", exc |-> FALSE,
           ev |-> <<"capture_preview">> ]
    ELSE [ dev |-> d, ret |-> FALSE, frame |-> "None", exc |-> FALSE,
           ev |-> <<"capture_preview">> ]

\* CanonCamera.start_video_recording at clock value t; hw is the outcome
\* of the configuration calls.  self.camera None raises AttributeError
\* inside the try block.
CanonCamera_start_video_recording(d, hw, t) ==
    IF d.camera = "None"
    THEN [ dev |-> d, ret |-> FALSE, exc |-> FALSE, ev |-> <<>> ]
    ELSE IF hw = "ok"
    THEN [ dev |-> [d EXCEPT !.recording = TRUE, !.video_start_time = t],
           ret |-> TRUE, exc |-> FALSE, ev |-> <<"movie_on">> ]
    ELSE [ dev |-> d, ret |-> FALSE, exc |-> FALSE, ev |-> <<"movie_on">> ]

\* CanonCamera.stop_video_recording; hw: "file" (a video file was found and
\* downloaded), "nofile" (none found), "err" (an exception in the try block).
\* ret is NoPath (None) or the local path.
CanonCamera_stop_video_recording(d, hw) ==
    IF ~d.recording
    THEN [ dev |-> d, ret |-> NoPath, exc |-> FALSE, ev |-> <<>> ]
    ELSE IF d.camera = "None"
    THEN [ dev |-> [d EXCEPT !.recording = FALSE],
           ret |-> NoPath, exc |-> FALSE, ev |-> <<>> ]
    ELSE IF hw = "file"
    THEN [ dev |-> [d EXCEPT !.recording = FALSE],
           ret |-> CanonPath, exc |-> FALSE,
           ev |-> <<"movie_off", "sleep", "list_files", "file_get">> ]
    ELSE IF hw = "nofile"
    THEN [ dev |-> [d EXCEPT !.recording = FALSE],
           ret |-> NoPath, exc |-> FALSE,
           ev |-> <<"movie_off", "sleep", "list_files">> ]
    ELSE [ dev |-> [d EXCEPT !.recording = FALSE],
           ret |-> NoPath, exc |-> FALSE, ev |-> <<"movie_off">> ]

\* A get_recording_duration() that does not test _recording.
CanonCamera_get_recording_duration_unguarded(d, t) ==
    IF d.video_start_time = NoTime
    THEN 0
    ELSE t - d.video_start_time

\* CanonCamera.get_recording_duration at clock value t.
CanonCamera_get_recording_duration(d, t) ==
    IF ~d.recording \/ d.video_start_time = NoTime
    THEN 0
    ELSE t - d.video_start_time

\* A release() that frees the handle but keeps the _initialized flag.
CanonCamera_release_keeps_flag(d, hw) ==
    LET s  == IF d.recording
              THEN CanonCamera_stop_video_recording(d, hw)
              ELSE [ dev |-> d, ret |-> NoPath, exc |-> FALSE, ev |-> <<>> ]
        d1 == s.dev
    IN  IF d1.camera # "None"
        THEN [ dev |-> [d1 EXCEPT !.camera = "None", !.context = "None"],
               ret |-> "None", exc |-> s.exc, ev |-> Append(s.ev, "exit") ]
        ELSE [ dev |-> d1, ret |-> "None", exc |-> s.exc, ev |-> s.ev ]

\* CanonCamera.release; hw is the outcome of the stop it may perform.
CanonCamera_release(d, hw) ==
    LET s  == IF d.recording
              THEN CanonCamera_stop_video_recording(d, hw)
              ELSE [ dev |-> d, ret |-> NoPath, exc |-> FALSE, ev |-> <<>> ]
        d1 == s.dev
    IN  IF d1.camera # "None"
        THEN [ dev |-> [d1 EXCEPT !.camera = "None", !.context = "None",
                                  !.initialized = FALSE],
               ret |-> "None", exc |-> s.exc, ev |-> Append(s.ev, "exit") ]
        ELSE [ dev |-> d1, ret |-> "None", exc |-> s.exc, ev |-> s.ev ]

\* CanonCamera.capture_picture; hw: "file" or "err".  ret is the camera
\* file or "None".
CanonCamera_capture_picture(d, hw) ==
    IF ~CanonCamera_is_initialized(d)
    THEN [ dev |-> d, ret |-> "None", exc |-> FALSE, ev |-> <<>> ]
    ELSE IF hw = "file"
    THEN [ dev |-> d, ret |-> "file", exc |-> FALSE, ev |-> <<"capture", "file_get">> ]
    ELSE [ dev |-> d, ret |-> "None", exc |-> FALSE, ev |-> <<"capture">> ]

\* CanonCamera.capture_and_process_frame: the frame, or "None".
CanonCamera_capture_and_process_frame(d, hw) ==
    LET r == CanonCamera_capture_frame(d, hw)
    IN  IF ~r.ret \/ r.frame = "None" THEN "None" ELSE r.frame

\* =====================================================================
\* camera_utils/camera_opencv.py : class OpenCVCamera
\* =====================================================================

\* OpenCVCamera.__init__.  cap is "None", or a VideoCapture that is
\* "open" (isOpened() true) or "closed".  written is the content of the
\* file behind video_writer: the number of frames written to it, counted
\* up to MaxFrames.
OpenCVCamera_new ==
    [ cap              |-> "None",
      recording        |-> FALSE,
      video_writer     |-> "None",
      video_path       |-> NoPath,
      video_start_time |-> NoTime,
      written          |-> 0 ]

\* A capture_frame() that writes whether or not a recording is active.
OpenCVCamera_write_unconditional(d) ==
    [d EXCEPT !.written = IF @ < MaxFrames THEN @ + 1 ELSE @]

\* self.video_writer.write(frame), when capture_frame reaches it.
OpenCVCamera_write(d) ==
    IF d.recording /\ d.video_writer # "None"
    THEN [d EXCEPT !.written = IF @ < MaxFrames THEN @ + 1 ELSE @]
    ELSE d

OpenCVCamera_is_initialized(d) == d.cap # "None" /\ d.cap = "open"

OpenCVCamera_is_recording(d) == d.recording

\* The retry loop of initialize() from pass retry_count on.
\* outs[retry_count + 1] is what cv2 does at this pass:
\*   "opened"      VideoCapture(...) returns an opened capture
\*   "not_opened"  it returns a capture that is not opened
\*   "ctor_raise"  VideoCapture(...) raises (self.cap is not assigned)
\*   "set_raise"   the capture opens and a later call in the try block raises
RECURSIVE OpenCVCamera_attempt(_, _, _, _)
OpenCVCamera_attempt(d, outs, retry_count, ev) ==
    IF retry_count >= max_retries
    THEN [ dev |-> d, ret |-> FALSE, exc |-> FALSE, ev |-> ev ]
    ELSE LET o   == outs[retry_count + 1]
             ev1 == Append(ev, "VideoCapture")
         IN  IF o = "opened"
             THEN [ dev |-> [d EXCEPT !.cap = "open"],
                    ret |-> TRUE, exc |-> FALSE, ev |-> Append(ev1, "set") ]
             ELSE IF o = "not_opened"
             THEN OpenCVCamera_attempt([d EXCEPT !.cap = "closed"], outs,
                                       retry_count + 1, Append(ev1, "sleep"))
             ELSE IF o = "set_raise"
             THEN OpenCVCamera_attempt([d EXCEPT !.cap = "open"], outs,
                                       retry_count + 1, Append(ev1, "set"))
             ELSE OpenCVCamera_attempt(d, outs, retry_count + 1, ev1)

\* OpenCVCamera.initialize
OpenCVCamera_initialize(d, outs) == OpenCVCamera_attempt(d, outs, 0, <<>>)

\* A capture_frame() without the is_initialized() guard.
OpenCVCamera_capture_frame_unguarded(d, hw) ==
    IF hw = "ok"
    THEN [ dev |-> OpenCVCamera_write(d), ret |-> TRUE, frame |-> "frame",
           exc |-> FALSE,
           ev |-> IF d.recording /\ d.video_writer # "None"
                  THEN <<"read", "write">> ELSE <<"read">> ]
    ELSE [ dev |-> d, ret |-> FALSE, frame |-> "None", exc |-> FALSE,
           ev |-> <<"read">> ]

\* OpenCVCamera.capture_frame; hw is the outcome of cap.read().
OpenCVCamera_capture_frame(d, hw) ==
    IF ~OpenCVCamera_is_initialized(d)
    THEN [ dev |-> d, ret |-> FALSE, frame |-> "None", exc |-> FALSE, ev |-> <<>> ]
    ELSE IF hw = "ok"
    THEN [ dev |-> OpenCVCamera_write(d), ret |-> TRUE, frame |-> "frame",
           exc |-> FALSE,
           ev |-> IF d.recording /\ d.video_writer # "None"
                  THEN <<"read", "write">> ELSE <<"read">> ]
    ELSE [ dev |-> d, ret |-> FALSE, frame |-> "None", exc |-> FALSE,
           ev |-> <<"read">> ]

\* OpenCVCamera.start_video_recording at clock value t (the output path is
\* named after the clock).  hw: "ok"; "err_get" (an exception before
\* video_path is assigned); "err_writer" (VideoWriter(...) raises).
OpenCVCamera_start_video_recording(d, hw, t) ==
    IF ~OpenCVCamera_is_initialized(d) \/ d.recording
    THEN [ dev |-> d, ret |-> FALSE, exc |-> FALSE, ev |-> <<>> ]
    ELSE IF hw = "ok"
    THEN [ dev |-> [d EXCEPT !.video_path = OpenCVPath(t), !.video_writer = "writer",
                             !.written = 0,
                             !.recording = TRUE, !.video_start_time = t],
           ret |-> TRUE, exc |-> FALSE, ev |-> <<"get", "VideoWriter">> ]
    ELSE IF hw = "err_writer"
    THEN [ dev |-> [d EXCEPT !.video_path = OpenCVPath(t)],
           ret |-> FALSE, exc |-> FALSE, ev |-> <<"get", "VideoWriter">> ]
    ELSE [ dev |-> d, ret |-> FALSE, exc |-> FALSE, ev |-> <<"get">> ]

\* A stop_video_recording() without the "not recording" guard.
OpenCVCamera_stop_video_recording_unguarded(d, hw) ==
    IF hw = "ok"
    THEN [ dev |-> [d EXCEPT !.video_writer = "None", !.recording = FALSE],
           ret |-> d.video_path, exc |-> FALSE, ev |-> <<"writer_release">> ]
    ELSE [ dev |-> d, ret |-> NoPath, exc |-> FALSE, ev |-> <<"writer_release">> ]

\* OpenCVCamera.stop_video_recording; hw is the outcome of
\* video_writer.release(): "ok" or "err".  ret is NoPath (None) or video_path.
OpenCVCamera_stop_video_recording(d, hw) ==
    IF ~d.recording \/ d.video_writer = "None"
    THEN [ dev |-> d, ret |-> NoPath, exc |-> FALSE, ev |-> <<>> ]
    ELSE IF hw = "ok"
    THEN [ dev |-> [d EXCEPT !.video_writer = "None", !.recording = FALSE],
           ret |-> d.video_path, exc |-> FALSE, ev |-> <<"writer_release">> ]
    ELSE [ dev |-> d, ret |-> NoPath, exc |-> FALSE, ev |-> <<"writer_release">> ]

\* OpenCVCamera.get_recording_duration at clock value t.
OpenCVCamera_get_recording_duration(d, t) ==
    IF ~d.recording \/ d.video_start_time = NoTime
    THEN 0
    ELSE t - d.video_start_time

\* OpenCVCamera.release; hw is the outcome of the stop it may perform.
OpenCVCamera_release(d, hw) ==
    LET s  == IF d.recording
              THEN OpenCVCamera_stop_video_recording(d, hw)
              ELSE [ dev |-> d, ret |-> NoPath, exc |-> FALSE, ev |-> <<>> ]
        d1 == s.dev
    IN  IF d1.cap # "None"
        THEN [ dev |-> [d1 EXCEPT !.cap = "None"],
               ret |-> "None", exc |-> s.exc, ev |-> Append(s.ev, "cap_release") ]
        ELSE [ dev |-> d1, ret |-> "None", exc |-> s.exc, ev |-> s.ev ]

\* =====================================================================
\* camera_utils/camera_interface.py : the Camera interface, by backend
\* =====================================================================
Backends == {"canon", "opencv"}

Camera_new(b) == IF b = "canon" THEN CanonCamera_new ELSE OpenCVCamera_new

Camera_is_initialized(b, d) ==
    IF b = "canon" THEN CanonCamera_is_initialized(d)
                   ELSE OpenCVCamera_is_initialized(d)

Camera_is_recording(b, d) ==
    IF b = "canon" THEN CanonCamera_is_recording(d)
                   ELSE OpenCVCamera_is_recording(d)

Camera_get_recording_duration(b, d, t) ==
    IF b = "canon" THEN CanonCamera_get_recording_duration(d, t)
                   ELSE OpenCVCamera_get_recording_duration(d, t)

\* What the library can do at one initialization attempt / one call.
InitOutcomes(b) ==
    IF b = "canon" THEN {"ok", "err"}
                   ELSE {"opened", "not_opened", "ctor_raise", "set_raise"}

AttemptFailed(o) == o \notin {"ok", "opened"}

StartOutcomes(b) ==
    IF b = "canon" THEN {"ok", "err"} ELSE {"ok", "err_get", "err_writer"}

StopOutcomes(b) ==
    IF b = "canon" THEN {"file", "nofile", "err"} ELSE {"ok", "err"}

Camera_initialize(b, d, outs) ==
    IF b = "canon" THEN CanonCamera_initialize(d, outs)
                   ELSE OpenCVCamera_initialize(d, outs)

Camera_capture_frame(b, d, hw) ==
    IF b = "canon" THEN CanonCamera_capture_frame(d, hw)
                   ELSE OpenCVCamera_capture_frame(d, hw)

Camera_start_video_recording(b, d, hw, t) ==
    IF b = "canon" THEN CanonCamera_start_video_recording(d, hw, t)
                   ELSE OpenCVCamera_start_video_recording(d, hw, t)

Camera_stop_video_recording(b, d, hw) ==
    IF b = "canon" THEN CanonCamera_stop_video_recording(d, hw)
                   ELSE OpenCVCamera_stop_video_recording(d, hw)

Camera_release(b, d, hw) ==
    IF b = "canon" THEN CanonCamera_release(d, hw)
                   ELSE OpenCVCamera_release(d, hw)

\* =====================================================================
\* file_manager.py : class FileManager
\* =====================================================================
MediaTypes == {"picture", "boomerang", "video"}

\* FileManager.SAVE_DIRS
SAVE_DIRS(media_type) ==
    CASE media_type = "picture"   -> "saved_pictures"
      [] media_type = "boomerang" -> "saved_boomerangs"
      [] media_type = "video"     -> "saved_videos"

\* The counts initialize_counts_file writes.
default_counts == [m \in MediaTypes |-> 0]

\* media_counts.json: missing, holding text that is not JSON, or holding
\* a JSON object with a count for some of the media types.
ValidFile(counts) == [ kind |-> "valid", counts |-> counts ]

MissingFile == [ kind |-> "missing", counts |-> << >> ]

InvalidFile == [ kind |-> "invalid", counts |-> << >> ]

\* FileManager.initialize_counts_file: the file is written only if no
\* file exists.
FileManager_initialize_counts_file(file) ==
    IF file.kind = "missing" THEN ValidFile(default_counts) ELSE file

\* FileManager._load_counts: the counts read, the file afterwards, and
\* exc when the recursion has not ended depth calls deep (Python raises
\* RecursionError at its recursion limit).
RECURSIVE FileManager_load_counts(_, _)
FileManager_load_counts(file, depth) ==
    IF file.kind = "valid"
    THEN [ file |-> file, counts |-> file.counts, exc |-> FALSE ]
    ELSE IF depth = 0
    THEN [ file |-> file, counts |-> << >>, exc |-> TRUE ]
    ELSE FileManager_load_counts(FileManager_initialize_counts_file(file),
                                 depth - 1)

\* counts.get(media_type, 0)
Get(counts, media_type) ==
    IF media_type \in DOMAIN counts THEN counts[media_type] ELSE 0

\* FileManager.get_count
FileManager_get_count(file, media_type) ==
    LET r == FileManager_load_counts(file, MaxDepth)
    IN  [ file |-> r.file, exc |-> r.exc,
          ret |-> IF r.exc THEN 0 ELSE Get(r.counts, media_type) ]

\* increment_count between its load and its save:
\* counts[media_type] = counts.get(media_type, 0) + 1
FileManager_incremented(counts, media_type) ==
    [m \in DOMAIN counts \cup {media_type} |->
        IF m = media_type THEN Get(counts, media_type) + 1 ELSE counts[m]]

\* FileManager.get_save_path.  The test of the conditional expression is
\* (media_type == VIDEO) or BOOMERANG, and the string BOOMERANG is truthy.
FileManager_get_save_path(media_type, count) ==
    LET extension == IF media_type = "video" \/ TRUE THEN ".mp4" ELSE ".jpeg"
    IN  <<SAVE_DIRS(media_type), count, extension>>

\* =====================================================================
\* camera_utils/camera_manager.py : class CameraManager
\* =====================================================================
RECURSIVE Reverse(_)
Reverse(q) == IF q = <<>> THEN <<>> ELSE Append(Reverse(Tail(q)), Head(q))

\* An arrangement that drops the repeated frame at each seam.
CameraManager_arrange_boomerang_frames_seamless(frames) ==
    IF frames = <<>> THEN <<>>
    ELSE frames \o Tail(Reverse(frames)) \o Tail(frames)

\* The sequence pass i of the loop extends complete_boomerang with.
CameraManager_sequence(frames, i) ==
    IF i % 2 = 0 THEN frames ELSE Reverse(frames)

\* The loop of _arrange_boomerang_frames from pass i on.
RECURSIVE CameraManager_extend(_, _, _)
CameraManager_extend(complete, frames, i) ==
    IF i >= 3 THEN complete
    ELSE CameraManager_extend(complete \o CameraManager_sequence(frames, i),
                              frames, i + 1)

\* CameraManager._arrange_boomerang_frames
CameraManager_arrange_boomerang_frames(frames) ==
    CameraManager_extend(<<>>, frames, 0)

\* =====================================================================
\* ui.py : class UserInterface (the session manager)
\* =====================================================================
\* The fields of the UserInterface object are one record.  page is the
\* frame on screen (main_frame "home", preview_frame "preview",
\* review_frame "review", keyboard_page_frame "keyboard"); pending says an
\* after(33, update_preview) callback is scheduled.  The picture is named
\* by the clock value at which it was taken, a buffered frame by its
\* position in the buffer when it was appended.
\*
\* History fields (not in the code): relCalls counts the release() calls
\* on the current Camera object, relSinceInit says release() was called on
\* it since its last successful initialize(), useAfterRelease that a
\* capture was then called on it, orphans counts the Camera objects
\* dropped while initialized, lastEnd is how the latest session ended and
\* prevEnd / prevRel are lastEnd / relCalls as the current session began,
\* sessions counts the sessions begun and pictureSession is the session
\* (by that count) in which last_picture_frame was taken.  calls lists
\* what the manager did since preview_page or the scheduled tick began:
\* the methods it entered ("update_preview", "start_timer", "review",
\* "error" for _handle_camera_error, "recover" for the branch of
\* update_preview taken when the preview capture gave None), its calls on
\* the camera, and how _initialize_camera and _wait_for_camera_ready
\* ended.  reviews counts the review_page calls of the session,
\* stills its capture_picture calls, and scheduled the
\* after(33, update_preview) callbacks not yet run.
\*
\* main_frame names the home page frame that exists (NoWidget: none);
\* release_event names the frame of the button whose <ButtonRelease-1>
\* event is queued (NoWidget: no such event).

\* None, for last_picture_frame.
NoFrame == -1

\* The timer label with text "" (as created), or destroyed.
NoText == -1

\* None, for main_frame: no home page frame exists.
NoWidget == -1

\* _start_timer: timer_durations
PictureDuration == 3
BoomerangDuration == 4
VideoDuration == 10

timer_durations(m) ==
    CASE m = "picture"   -> PictureDuration
      [] m = "boomerang" -> BoomerangDuration
      [] m = "video"     -> VideoDuration

\* The lead-in tests of the three capture handlers.
PictureLeadIn == 3
BoomerangLeadIn == 0
VideoLeadIn == 3

\* _wait_for_camera_ready: max_attempts
max_attempts == 4

Min(a, b) == IF a < b THEN a ELSE b

\* UserInterface.__init__ followed by home_page().  self.camera is None
\* until _initialize_camera assigns it, and no method is called on it
\* before; the record of a fresh object stands for it.
UI_new ==
    [ page               |-> "home",
      pressed_button     |-> "None",
      camera             |-> CanonCamera_new,
      timer_start        |-> NoTime,
      timer_end          |-> NoTime,
      pending            |-> FALSE,
      timer_text         |-> NoText,
      last_picture_frame |-> NoFrame,
      boomerang_frames   |-> <<>>,
      video_frames       |-> <<>>,
      relCalls           |-> 0,
      relSinceInit       |-> FALSE,
      useAfterRelease    |-> FALSE,
      orphans            |-> 0,
      lastEnd            |-> "none",
      prevEnd            |-> "none",
      prevRel            |-> 0,
      sessions           |-> 0,
      pictureSession     |-> 0,
      reviews            |-> 0,
      scheduled          |-> 0,
      stills             |-> 0,
      main_frame         |-> 0,
      release_event      |-> NoWidget,
      calls              |-> <<>> ]

\* self.camera.release() as the manager calls it (no recording is ever
\* started by ui.py, so the stop outcome is immaterial).
camera_release(s) ==
    [s EXCEPT !.camera = CanonCamera_release(@, "nofile").dev,
              !.relCalls = Min(@ + 1, MaxCount),
              !.relSinceInit = TRUE,
              !.calls = Append(@, "release")]

\* self.camera.capture_and_process_frame(...) as the manager calls it.
camera_capture(s, hw) ==
    [ ui    |-> [s EXCEPT !.useAfterRelease = @ \/ s.relSinceInit,
                          !.calls = Append(@, "capture_frame")],
      frame |-> CanonCamera_capture_and_process_frame(s.camera, hw) ]

\* self.camera.capture_picture() as the manager calls it.
camera_capture_picture(s, hw) ==
    [ ui   |-> [s EXCEPT !.useAfterRelease = @ \/ s.relSinceInit,
                         !.stills = Min(@ + 1, MaxCount),
                         !.calls = Append(@, "capture_picture")],
      file |-> CanonCamera_capture_picture(s.camera, hw).ret ]

\* The gphoto2 outcomes of an initialize() whose first k attempts fail.
CanonOuts(k) == [i \in 1..max_retries |-> IF i <= k THEN "err" ELSE "ok"]

\* UserInterface._initialize_camera: a new CanonCamera replaces
\* self.camera and is initialized; ok = FALSE stands for the RuntimeError.
initialize_camera(s, k) ==
    LET r == CanonCamera_initialize(CanonCamera_new, CanonOuts(k))
    IN  [ ui |-> [s EXCEPT !.camera = r.dev,
                           !.orphans = IF CanonCamera_is_initialized(s.camera)
                                       THEN Min(@ + 1, MaxCount) ELSE @,
                           !.relCalls = 0,
                           !.relSinceInit = FALSE,
                           !.calls = Append2(@, "initialize",
                                             IF r.ret THEN "initialize:ok"
                                                      ELSE "initialize:failed")],
          ok |-> r.ret ]

\* The loop of _wait_for_camera_ready from one attempt on: `left`
\* attempts are left and the next `fails` test frames fail.
RECURSIVE ready_attempt(_, _, _)
ready_attempt(s, left, fails) ==
    IF left = 0
    THEN [ ui |-> s, ok |-> FALSE ]
    ELSE LET c == camera_capture(s, IF fails > 0 THEN "err" ELSE "ok")
         IN  IF c.frame # "None"
             THEN [ ui |-> c.ui, ok |-> TRUE ]
             ELSE ready_attempt(c.ui, left - 1, IF fails > 0 THEN fails - 1 ELSE 0)

\* UserInterface._wait_for_camera_ready: up to max_attempts test frames,
\* the first `fails` of which fail.
wait_for_camera_ready(s, fails) ==
    LET r == ready_attempt(s, max_attempts, fails)
    IN  [ ui |-> [r.ui EXCEPT !.calls = Append(@, IF r.ok THEN "ready:ok"
                                                          ELSE "ready:failed")],
          ok |-> r.ok ]

\* self.preview_label.after(33, self.update_preview): one more callback
\* is scheduled.
after_update_preview(s) ==
    [s EXCEPT !.pending = TRUE, !.scheduled = Min(@ + 1, MaxCount)]

\* UserInterface.home_page: a new main_frame with new buttons, named by
\* the number of sessions begun before it was built.
home_page(s) == [s EXCEPT !.page = "home", !.main_frame = s.sessions]

\* UserInterface._handle_camera_error: the message box, then (on "OK")
\* the preview frame is destroyed and the home page shown.
handle_camera_error(s, answer) ==
    IF answer = "OK"
    THEN home_page([s EXCEPT !.lastEnd = "failed", !.timer_text = NoText,
                             !.calls = Append(@, "error")])
    ELSE [s EXCEPT !.lastEnd = "failed", !.calls = Append(@, "error")]

\* UserInterface.review_page
review_page(s) ==
    [s EXCEPT !.page = "review", !.timer_text = NoText,
              !.reviews = Min(@ + 1, MaxCount),
              !.calls = Append(@, "review")]

\* UserInterface.arrange_boomerang_frames.  arr = "ffmpeg": the frames are
\* re-read from the video FFmpeg wrote (forward then reversed, at double
\* speed and the same frame rate: every second frame); otherwise, or with
\* no frame to encode, the fallback: forward, reversed, forward.
EverySecond(q) == [i \in 1..((Len(q) + 1) \div 2) |-> q[2 * i - 1]]

arrange_boomerang_frames(frames, arr) ==
    IF arr = "ffmpeg" /\ frames # <<>>
    THEN EverySecond(frames \o Reverse(frames))
    ELSE frames \o Reverse(frames) \o frames

\* A picture handler that releases the camera on every tick.
handle_picture_capture_releases_early(s, e, t) ==
    LET p  == IF t - s.timer_start > PictureLeadIn
              THEN camera_capture_picture(s, e.pic)
              ELSE [ui |-> s, file |-> "None"]
        s1 == IF p.file # "None" /\ e.pic # "raise"
              THEN [p.ui EXCEPT !.last_picture_frame = t,
                                !.pictureSession = s.sessions]
              ELSE p.ui
    IN  IF t - s.timer_start > PictureLeadIn /\ e.pic = "raise"
        THEN [ui |-> p.ui, exc |-> TRUE]
        ELSE IF t <= s.timer_end
        THEN [ui |-> after_update_preview(camera_release(s1)), exc |-> FALSE]
        ELSE [ui |-> review_page(camera_release(s1)), exc |-> FALSE]

\* UserInterface._handle_picture_capture at clock value t.  e.pic is the
\* outcome of the still capture: "file", "err" (capture_picture returns
\* None) or "raise" (storing or opening the file raises).
handle_picture_capture(s, e, t) ==
    LET p  == IF t - s.timer_start > PictureLeadIn
              THEN camera_capture_picture(s, IF e.pic = "raise" THEN "file" ELSE e.pic)
              ELSE [ui |-> s, file |-> "None"]
        s1 == IF p.file # "None" /\ e.pic # "raise"
              THEN [p.ui EXCEPT !.last_picture_frame = t,
                                !.pictureSession = s.sessions]
              ELSE p.ui
    IN  IF p.file # "None" /\ e.pic = "raise"
        THEN [ui |-> p.ui, exc |-> TRUE]
        ELSE IF t <= s.timer_end
        THEN [ui |-> after_update_preview(s1), exc |-> FALSE]
        ELSE [ui |-> review_page(camera_release(s1)), exc |-> FALSE]

\* A boomerang handler that hands over to review without release().
handle_boomerang_capture_no_release(s, e, t) ==
    LET s1 == IF t - s.timer_start > BoomerangLeadIn
              THEN [s EXCEPT !.boomerang_frames = Append(@, Len(@) + 1)]
              ELSE s
    IN  IF t <= s.timer_end
        THEN [ui |-> after_update_preview(s1), exc |-> FALSE]
        ELSE [ui |-> review_page(
                        [s1 EXCEPT !.boomerang_frames =
                                       arrange_boomerang_frames(@, e.arr)]),
              exc |-> FALSE]

\* UserInterface._handle_boomerang_capture at clock value t.
handle_boomerang_capture(s, e, t) ==
    LET s1 == IF t - s.timer_start > BoomerangLeadIn
              THEN [s EXCEPT !.boomerang_frames = Append(@, Len(@) + 1)]
              ELSE s
    IN  IF t <= s.timer_end
        THEN [ui |-> after_update_preview(s1), exc |-> FALSE]
        ELSE [ui |-> review_page(
                        [camera_release(s1) EXCEPT !.boomerang_frames =
                                       arrange_boomerang_frames(@, e.arr)]),
              exc |-> FALSE]

\* A video handler that hands over to review before release().
handle_video_capture_reviews_first(s, e, t) ==
    LET s1 == IF t - s.timer_start > VideoLeadIn
              THEN [s EXCEPT !.video_frames = Append(@, Len(@) + 1)]
              ELSE s
    IN  IF t <= s.timer_end
        THEN [ui |-> after_update_preview(s1), exc |-> FALSE]
        ELSE [ui |-> camera_release(review_page(s1)), exc |-> FALSE]

\* A video handler that keeps only the latest frame.
handle_video_capture_keeps_latest(s, e, t) ==
    LET s1 == IF t - s.timer_start > VideoLeadIn
              THEN [s EXCEPT !.video_frames = <<Len(@) + 1>>]
              ELSE s
    IN  IF t <= s.timer_end
        THEN [ui |-> after_update_preview(s1), exc |-> FALSE]
        ELSE [ui |-> review_page(camera_release(s1)), exc |-> FALSE]

\* UserInterface._handle_video_capture at clock value t.
handle_video_capture(s, e, t) ==
    LET s1 == IF t - s.timer_start > VideoLeadIn
              THEN [s EXCEPT !.video_frames = Append(@, Len(@) + 1)]
              ELSE s
    IN  IF t <= s.timer_end
        THEN [ui |-> after_update_preview(s1), exc |-> FALSE]
        ELSE [ui |-> review_page(camera_release(s1)), exc |-> FALSE]

\* UserInterface._handle_media_capture
handle_media_capture(s, e, t) ==
    CASE s.pressed_button = "picture"   -> handle_picture_capture(s, e, t)
      [] s.pressed_button = "boomerang" -> handle_boomerang_capture(s, e, t)
      [] s.pressed_button = "video"     -> handle_video_capture(s, e, t)

\* An update_preview whose recovery initializes a new camera without
\* releasing the old one.
update_preview_recovers_without_release(s, e, t) ==
    LET c == camera_capture([s EXCEPT !.pending = FALSE,
                                      !.calls = Append(@, "update_preview")],
                            e.cap)
    IN  IF c.frame = "None"
        THEN LET s0 == [c.ui EXCEPT !.calls = Append(@, "recover")]
                 i  == initialize_camera(s0, e.init)
                 w  == wait_for_camera_ready(i.ui, e.ready)
             IN  IF ~i.ok      THEN handle_camera_error(i.ui, e.answer)
                 ELSE IF ~w.ok THEN handle_camera_error(w.ui, e.answer)
                 ELSE w.ui
        ELSE LET h == handle_media_capture(c.ui, e, t)
             IN  IF h.exc THEN handle_camera_error(h.ui, e.answer)
                 ELSE h.ui

\* An update_preview whose successful recovery restarts the deadline.
update_preview_restarts_deadline(s, e, t) ==
    LET c == camera_capture([s EXCEPT !.pending = FALSE,
                                      !.calls = Append(@, "update_preview")],
                            e.cap)
    IN  IF c.frame = "None"
        THEN LET s0 == [c.ui EXCEPT !.calls = Append(@, "recover")]
                 s1 == IF CanonCamera_is_initialized(s0.camera)
                       THEN camera_release(s0) ELSE s0
                 i  == initialize_camera(s1, e.init)
                 w  == wait_for_camera_ready(i.ui, e.ready)
             IN  IF ~i.ok      THEN handle_camera_error(i.ui, e.answer)
                 ELSE IF ~w.ok THEN handle_camera_error(w.ui, e.answer)
                 ELSE [w.ui EXCEPT !.timer_end = t + timer_durations(s.pressed_button)]
        ELSE LET h == handle_media_capture(c.ui, e, t)
             IN  IF h.exc THEN handle_camera_error(h.ui, e.answer)
                 ELSE h.ui

\* UserInterface.update_preview, one poll tick at clock value t.
\* e.cap: the preview capture; e.init, e.ready: the recovery's
\* initialize() and readiness test; e.answer: the message box.
update_preview(s, e, t) ==
    LET c == camera_capture([s EXCEPT !.pending = FALSE,
                                      !.calls = Append(@, "update_preview")],
                            e.cap)
    IN  IF c.frame = "None"
        THEN LET s0 == [c.ui EXCEPT !.calls = Append(@, "recover")]
                 s1 == IF CanonCamera_is_initialized(s0.camera)
                       THEN camera_release(s0) ELSE s0
                 i  == initialize_camera(s1, e.init)
                 w  == wait_for_camera_ready(i.ui, e.ready)
             IN  IF ~i.ok      THEN handle_camera_error(i.ui, e.answer)
                 ELSE IF ~w.ok THEN handle_camera_error(w.ui, e.answer)
                 ELSE w.ui
        ELSE LET h == handle_media_capture(c.ui, e, t)
             IN  IF h.exc THEN handle_camera_error(h.ui, e.answer)
                 ELSE h.ui

\* UserInterface._start_timer at clock value t; e.dt is the time between
\* its two clock reads.  The first poll tick runs inside it.
start_timer(s, e, t) ==
    update_preview([s EXCEPT !.timer_start = t,
                             !.timer_end = t + e.dt + timer_durations(s.pressed_button),
                             !.calls = Append(@, "start_timer")],
                   e.tick, t + e.dt)

\* A preview_page that leaves the home page frame and its buttons in
\* place.
preview_page_keeps_main_frame(s, e, t) ==
    LET s0 == [s EXCEPT !.page = "preview",
                        !.calls = <<>>,
                        !.reviews = 0,
                        !.stills = 0,
                        !.timer_text = NoText,
                        !.sessions = @ + 1,
                        !.prevEnd = s.lastEnd,
                        !.prevRel = s.relCalls,
                        !.lastEnd = "none"]
        i  == initialize_camera(s0, e.init)
        w  == wait_for_camera_ready(i.ui, e.ready)
        c  == camera_capture(w.ui, e.first)
    IN  IF ~i.ok      THEN handle_camera_error(i.ui, e.answer)
        ELSE IF ~w.ok THEN handle_camera_error(w.ui, e.answer)
        ELSE start_timer(c.ui, e, t)

\* UserInterface.preview_page at clock value t: a session begins.  The
\* home page frame is destroyed first (retake: it is already).
preview_page(s, e, t) ==
    LET s0 == [s EXCEPT !.page = "preview",
                        !.main_frame = NoWidget,
                        !.calls = <<>>,
                        !.reviews = 0,
                        !.stills = 0,
                        !.timer_text = NoText,
                        !.sessions = @ + 1,
                        !.prevEnd = s.lastEnd,
                        !.prevRel = s.relCalls,
                        !.lastEnd = "none"]
        i  == initialize_camera(s0, e.init)
        w  == wait_for_camera_ready(i.ui, e.ready)
        c  == camera_capture(w.ui, e.first)
    IN  IF ~i.ok      THEN handle_camera_error(i.ui, e.answer)
        ELSE IF ~w.ok THEN handle_camera_error(w.ui, e.answer)
        ELSE start_timer(c.ui, e, t)

\* UserInterface._update_timer, one pass of the countdown worker at clock
\* value t, the timer label existing: the remaining time is shown, or,
\* the deadline reached, the label is destroyed.
update_timer(s, t) ==
    IF t < s.timer_end
    THEN [s EXCEPT !.timer_text = s.timer_end - t]
    ELSE [s EXCEPT !.timer_text = NoText]

\* UserInterface._clear_media_buffers
clear_media_buffers(s) ==
    [s EXCEPT !.last_picture_frame = NoFrame,
              !.pictureSession = 0,
              !.boomerang_frames = <<>>,
              !.video_frames = <<>>]

\* UserInterface._handle_button_press
handle_button_press(s, m, e, t) ==
    preview_page([s EXCEPT !.pressed_button = m], e, t)

\* The <ButtonRelease-1> event of the click whose <Button-1> event ran
\* _handle_button_press; both are bound to it by
\* _create_home_page_buttons.  s.release_event names the frame of the
\* button the event is for; Tk runs the binding if that button still
\* exists and drops the event if it was destroyed.
button_release(s, e, t) ==
    LET s0 == [s EXCEPT !.release_event = NoWidget]
    IN  IF s.main_frame = s.release_event
        THEN handle_button_press(s0, s.pressed_button, e, t)
        ELSE s0

\* UserInterface.accept_button
accept_button(s) == [s EXCEPT !.page = "keyboard"]

\* UserInterface.retake_button
retake_button(s, e, t) ==
    preview_page([clear_media_buffers(s) EXCEPT !.lastEnd = "retake"], e, t)

\* UserInterface.cancel_button
cancel_button(s) ==
    home_page([clear_media_buffers(s) EXCEPT !.lastEnd = "cancel"])

\* UserInterface.save (the background task it starts is not part of this
\* record)
save(s) == home_page([s EXCEPT !.lastEnd = "save"])

\* The library outcomes of one poll tick.  The preview capture fails:
\* the recovery's initialize() fails, or its readiness test fails, or both
\* succeed (at once, or after failed attempts).
RecoveryEnvs ==
    [ cap : {"err"}, pic : {"file"}, arr : {"fallback"},
      init : {max_retries}, ready : {0}, answer : {"OK", "closed"} ]
    \cup
    [ cap : {"err"}, pic : {"file"}, arr : {"fallback"},
      init : {0}, ready : {max_attempts}, answer : {"OK", "closed"} ]
    \cup
    { [ cap |-> "err", pic |-> "file", arr |-> "fallback",
        init |-> 0, ready |-> 0, answer |-> "OK" ],
      [ cap |-> "err", pic |-> "file", arr |-> "fallback",
        init |-> max_retries - 1, ready |-> max_attempts - 1, answer |-> "OK" ] }

\* The preview capture succeeds: the still capture and the arrangement
\* have outcomes, and the message box if the still capture raises.
CaptureEnvs ==
    [ cap : {"ok"}, pic : {"file", "err"}, arr : {"ffmpeg", "fallback"},
      init : {0}, ready : {0}, answer : {"OK"} ]
    \cup
    [ cap : {"ok"}, pic : {"raise"}, arr : {"fallback"},
      init : {0}, ready : {0}, answer : {"OK", "closed"} ]

TickEnvs == CaptureEnvs \cup RecoveryEnvs

\* The first tick, inside _start_timer, is before the lead-in and the
\* deadline: neither the still capture nor the arrangement is reached.
NoTick == [ cap |-> "ok", pic |-> "file", arr |-> "fallback",
            init |-> 0, ready |-> 0, answer |-> "OK" ]

FirstTickEnvs == {NoTick} \cup RecoveryEnvs

\* The outcomes of preview_page: initialization fails; the readiness test
\* fails; or polling starts (at once, or after failed attempts).
SessionEnvs ==
    [ init : {max_retries}, ready : {0}, first : {"ok"}, dt : {0},
      tick : {NoTick}, answer : {"OK", "closed"} ]
    \cup
    [ init : {0}, ready : {max_attempts}, first : {"ok"}, dt : {0},
      tick : {NoTick}, answer : {"OK", "closed"} ]
    \cup
    [ init : {0}, ready : {0}, first : {"ok"}, dt : {0, 1},
      tick : FirstTickEnvs, answer : {"OK"} ]
    \cup
    [ init : {max_retries - 1}, ready : {max_attempts - 1}, first : {"err"}, dt : {0, 1},
      tick : FirstTickEnvs, answer : {"OK"} ]

\* The outcomes that matter to the release event: those of the session
\* it begins if its binding runs, none if the event is dropped.
ReleaseEnvs(s) ==
    IF s.main_frame = s.release_event
    THEN SessionEnvs
    ELSE {[ init |-> 0, ready |-> 0, first |-> "ok", dt |-> 0,
            tick |-> NoTick, answer |-> "OK" ]}

\* =====================================================================
\* State
\* =====================================================================
VARIABLES
    backend,   \* SpecDev: the class of the Camera object under test
    dev,       \* SpecDev: the Camera object's fields
    clock,     \* SpecDev: time.time()
    last,      \* SpecDev: the latest interface call: its name, the object
               \*          before it, the library outcome, what it returned
    ui,        \* Spec: the UserInterface object
    now,       \* Spec: time.time(), counted from the latest _start_timer
               \*       while a tick is scheduled (0 otherwise)
    frames,              \* SpecArrange: the argument of _arrange_boomerang_frames
    complete_boomerang,  \* SpecArrange: the list it returned
    cm_pc,               \* SpecArrange: "idle", or "returned" after the call
    counts_file,         \* SpecCounts: the content of media_counts.json
    task,                \* SpecCounts: each save task's position in
                         \*             increment_count and its local values
    got,                 \* SpecGetCount: the latest get_count call: its
                         \*             argument, the file before it, what
                         \*             it returned, whether it raised
    returned,            \* SpecCounts: the calls that returned, in order:
                         \*             <<media_type, count, save path, how
                         \*             many calls had returned as it began>>
    sv,                  \* SpecSave: the fields of the UserInterface object
                         \*           that the save tasks share with the UI
                         \*           thread, and each save task's position
    tm                   \* SpecTimer: the fields the countdown workers
                         \*            share with the UI thread, the clock,
                         \*            and each worker's position

devvars == <<backend, dev, clock, last>>

mgrvars == <<ui, now>>

cmvars == <<frames, complete_boomerang, cm_pc>>

fmvars == <<counts_file, task, returned, got>>

svvars == <<sv>>

tmvars == <<tm>>

vars == <<backend, dev, clock, last, ui, now, frames, complete_boomerang, cm_pc,
          counts_file, task, returned, got, sv, tm>>

\* The variables of the other specifications, at rest.
DevIdle ==
    /\ backend = "canon"
    /\ dev = CanonCamera_new
    /\ clock = 0
    /\ last = [ op |-> "new", pre |-> CanonCamera_new, arg |-> "None",
                ret |-> "None", exc |-> FALSE, ev |-> <<>> ]

MgrIdle == ui = UI_new /\ now = 0

CmIdle == frames = <<>> /\ complete_boomerang = <<>> /\ cm_pc = "idle"

\* The save tasks that may run at the same time.
Tasks == {1, 2}

TaskIdle == [ pc |-> "idle", media_type |-> "None", counts |-> default_counts,
              began |-> 0 ]

NoCall == [ media_type |-> "None", pre |-> MissingFile, ret |-> 0, exc |-> FALSE ]

FmIdle ==
    /\ counts_file = ValidFile(default_counts)
    /\ got = NoCall
    /\ task = [k \in Tasks |-> TaskIdle]
    /\ returned = <<>>

\* What a save task saved, the mail it handed to send_email and what it
\* had watermarked: nothing.
NoSave == [ path |-> NoPath, media_type |-> "None", artifact |-> 0 ]

NoMail == [ to |-> "None", path |-> NoPath, media_type |-> "None" ]

NoMark == [ path |-> NoPath, kind |-> "None" ]

\* A save thread not started.  accepted is the session save() started it
\* for: its number, its mode and the address entered.  save and mark are
\* how its save method and its watermark call ended ("None": not called).

SaveIdle == [ pc |-> "idle", count |-> 0, saved |-> NoSave, marked |-> NoMark,
              mailed |-> NoMail, save |-> "None", mark |-> "None",
              accepted |-> [ session |-> 0, media_type |-> "None", email |-> "None" ] ]

\* The UserInterface object on the home page, as far as the save tasks
\* are concerned.  A buffer is named by the session whose capture filled
\* it (0: empty).
SV_new ==
    [ page           |-> "home",
      pressed_button |-> "None",
      user_email     |-> "None",
      media_path     |-> NoPath,
      buffers        |-> [m \in MediaTypes |-> 0],
      counts         |-> default_counts,
      session        |-> 0,
      threads        |-> [k \in Tasks |-> SaveIdle] ]

SvIdle == sv = SV_new

\* The countdown threads that may exist at the same time.
Workers == {1, 2}

\* A countdown thread not started.  session is the session whose
\* _start_timer started it; readLater says it read timer_end when a later
\* session had assigned it; usedDestroyed says it called configure or
\* destroy on a timer label the UI thread had destroyed.
WorkerIdle == [ pc |-> "idle", session |-> 0, readLater |-> FALSE,
                usedDestroyed |-> FALSE ]

\* The UserInterface object on the home page, as far as the countdown
\* workers are concerned.  timer_label names the label by the session
\* that created it (0: None); label_exists is its winfo_exists().
TM_new ==
    [ page          |-> "home",
      session       |-> 0,
      clock         |-> 0,
      timer_start   |-> NoTime,
      timer_end     |-> NoTime,
      timer_label   |-> 0,
      label_exists  |-> FALSE,
      destroyed_by  |-> "None",
      workers       |-> [k \in Workers |-> WorkerIdle] ]

TmIdle == tm = TM_new

\* =====================================================================
\* SpecDev: a Camera object under an arbitrary sequence of calls
\* =====================================================================
DevInit ==
    /\ TmIdle
    /\ backend \in Backends
    /\ dev = Camera_new(backend)
    /\ clock = 0
    /\ last = [ op |-> "new", pre |-> Camera_new(backend), arg |-> "None",
                ret |-> "None", exc |-> FALSE, ev |-> <<>> ]
    /\ MgrIdle
    /\ CmIdle
    /\ FmIdle
    /\ SvIdle

Called(op, arg, r) ==
    /\ dev' = r.dev
    /\ last' = [ op |-> op, pre |-> dev, arg |-> arg,
                 ret |-> r.ret, exc |-> r.exc, ev |-> r.ev ]
    /\ UNCHANGED <<backend, clock, mgrvars, cmvars, fmvars, svvars, tmvars>>

DevInitialize ==
    \E outs \in [1..max_retries -> InitOutcomes(backend)] :
        Called("initialize", outs, Camera_initialize(backend, dev, outs))

DevCaptureFrame ==
    \E hw \in {"ok", "err"} :
        LET r == Camera_capture_frame(backend, dev, hw)
        IN  Called("capture_frame", hw,
                   [ dev |-> r.dev, ret |-> <<r.ret, r.frame>>,
                     exc |-> r.exc, ev |-> r.ev ])

DevCapturePicture ==
    /\ backend = "canon"
    /\ \E hw \in {"file", "err"} :
           Called("capture_picture", hw, CanonCamera_capture_picture(dev, hw))

DevStartVideoRecording ==
    \E hw \in StartOutcomes(backend) :
        Called("start_video_recording", hw,
               Camera_start_video_recording(backend, dev, hw, clock))

DevStopVideoRecording ==
    \E hw \in StopOutcomes(backend) :
        Called("stop_video_recording", hw,
               Camera_stop_video_recording(backend, dev, hw))

DevRelease ==
    \E hw \in StopOutcomes(backend) :
        Called("release", hw, Camera_release(backend, dev, hw))

\* time passes
DevAdvance ==
    /\ clock < MaxTime
    /\ clock' = clock + 1
    /\ UNCHANGED <<backend, dev, last, mgrvars, cmvars, fmvars, svvars, tmvars>>

DevNext ==
    \/ DevInitialize
    \/ DevCaptureFrame
    \/ DevCapturePicture
    \/ DevStartVideoRecording
    \/ DevStopVideoRecording
    \/ DevRelease
    \/ DevAdvance

SpecDev == DevInit /\ [][DevNext]_vars

\* =====================================================================
\* Properties of the Camera backends (checked under SpecDev)
\* =====================================================================
OpensHandle(ev) == \E i \in DOMAIN ev : ev[i] \in {"init", "VideoCapture"}

AllAttemptsFailed(outs) == \A i \in 1..max_retries : AttemptFailed(outs[i])

\* C1: release() never raises and leaves is_initialized() false, whatever
\* calls came before it (none, a failed initialize(), another release()).
C1_ReleaseLeavesUninitialized ==
    last.op = "release" =>
        /\ ~last.exc
        /\ ~Camera_is_initialized(backend, dev)

\* C1 witness: release() on a DSLR object whose initialize() failed (the
\* gphoto2 camera object exists, the flag is false).
C1_Witness ==
    /\ backend = "canon"
    /\ last.op = "release"
    /\ last.pre.camera = "obj"
    /\ ~last.pre.initialized

\* C6: when all 3 attempts fail, initialize() returns False without raising
\* and is_initialized() is false afterwards.
C6_FailedInitializeNotInitialized ==
    (last.op = "initialize" /\ AllAttemptsFailed(last.arg)) =>
        /\ last.ret = FALSE
        /\ ~last.exc
        /\ ~Camera_is_initialized(backend, dev)

\* C7: initialize() on an initialized Device returns success, opens no new
\* hardware handle and leaves the Device unchanged.
C7_InitializeIdempotent ==
    (last.op = "initialize" /\ Camera_is_initialized(backend, last.pre)) =>
        /\ last.ret = TRUE
        /\ ~OpensHandle(last.ev)
        /\ dev = last.pre

\* C8: capture_frame() on a Device that is not initialized returns
\* (False, None), reads nothing from the hardware and changes nothing.
C8_CaptureFrameNotInitialized ==
    (last.op = "capture_frame" /\ ~Camera_is_initialized(backend, last.pre)) =>
        /\ last.ret = <<FALSE, "None">>
        /\ ~last.exc
        /\ last.ev = <<>>
        /\ dev = last.pre

\* C8 witness: capture_frame() on a webcam object whose initialize() left a
\* capture that is not opened.
C8_Witness ==
    /\ backend = "opencv"
    /\ last.op = "capture_frame"
    /\ last.pre.cap = "closed"

\* C9: stop_video_recording() with no recording active returns None without
\* raising and changes nothing.
C9_StopWhenIdle ==
    (last.op = "stop_video_recording" /\ ~Camera_is_recording(backend, last.pre)) =>
        /\ last.ret = NoPath
        /\ ~last.exc
        /\ dev = last.pre

\* C9 witness: a second stop_video_recording() after a recording was started
\* and stopped on the webcam.
C9_Witness ==
    /\ backend = "opencv"
    /\ last.op = "stop_video_recording"
    /\ ~last.pre.recording
    /\ last.pre.video_start_time # NoTime
    /\ last.pre.video_path # NoPath

\* C10: start_video_recording() while a recording is active returns False
\* and leaves the recording (start time, output handle) unchanged.
C10_StartWhileRecordingFails ==
    (last.op = "start_video_recording" /\ Camera_is_recording(backend, last.pre)) =>
        /\ last.ret = FALSE
        /\ dev = last.pre

\* The library call that ends a recording, and the one that frees the
\* hardware handle.
StopCall(b) == IF b = "canon" THEN "movie_off" ELSE "writer_release"

FreeCall(b) == IF b = "canon" THEN "exit" ELSE "cap_release"

CalledBefore(ev, a, b) ==
    \E i, j \in DOMAIN ev : i < j /\ ev[i] = a /\ ev[j] = b

\* C11: stop_video_recording() on an active recording, when the library
\* reports no error, returns the artifact path if data was recorded and
\* None if not (DSLR: a video file was found or not; webcam: frames were
\* written to the writer or not).
C11_StopReturnsPathIffData ==
    (last.op = "stop_video_recording" /\ Camera_is_recording(backend, last.pre)) =>
        IF backend = "canon"
        THEN /\ last.arg = "file"   => last.ret # NoPath
             /\ last.arg = "nofile" => last.ret = NoPath
        ELSE last.arg = "ok" => (last.ret = NoPath <=> last.pre.written = 0)

\* C12: release() on a recording device ends the recording before it frees
\* the hardware handle, and is_recording() is false afterwards.
C12_ReleaseStopsRecordingFirst ==
    (last.op = "release" /\ Camera_is_recording(backend, last.pre)) =>
        /\ CalledBefore(last.ev, StopCall(backend), FreeCall(backend))
        /\ ~Camera_is_recording(backend, dev)

\* C13: whenever is_recording() is false, get_recording_duration() is 0.
C13_IdleDurationZero ==
    ~Camera_is_recording(backend, dev) =>
        Camera_get_recording_duration(backend, dev, clock) = 0

\* C13 witness: a recording was started and stopped, and the clock has
\* moved on since it started.
C13_Witness ==
    /\ last.op = "stop_video_recording"
    /\ Camera_is_recording(backend, last.pre)
    /\ ~Camera_is_recording(backend, dev)
    /\ dev.video_start_time # NoTime
    /\ clock > dev.video_start_time

\* =====================================================================
\* Spec: the session manager under the user's and Tk's events
\* =====================================================================
Init ==
    /\ ui = UI_new
    /\ now = 0
    /\ DevIdle
    /\ TmIdle
    /\ CmIdle
    /\ FmIdle
    /\ SvIdle

\* The buffers stay within the model's bounds.
BufferBound(s) ==
    /\ Len(s.boomerang_frames) <= 3 * MaxFrames
    /\ Len(s.video_frames) <= MaxFrames

\* The click's release event, queued behind its press event, is
\* dispatched when the press handler has returned.
ButtonRelease ==
    /\ ui.release_event # NoWidget
    /\ \E e \in ReleaseEnvs(ui) :
           /\ ui' = button_release(ui, e, now)
           /\ now' = IF ui'.pending THEN now ELSE 0
    /\ BufferBound(ui')
    /\ UNCHANGED <<devvars, cmvars, fmvars, svvars, tmvars>>

\* A home page button is pressed: _handle_button_press.
HandleButtonPress ==
    /\ ui.page = "home"
    /\ ui.release_event = NoWidget
    /\ ui.sessions < MaxSessions
    /\ \E m \in MediaTypes, e \in SessionEnvs :
           /\ ui' = handle_button_press(
                        [ui EXCEPT !.release_event = ui.main_frame], m, e, 0)
           /\ now' = IF ui'.pending THEN e.dt ELSE 0
    /\ BufferBound(ui')
    /\ UNCHANGED <<devvars, cmvars, fmvars, svvars, tmvars>>

\* The scheduled after(33, update_preview) callback runs.
Tick ==
    /\ ui.pending
    /\ ui.release_event = NoWidget
    /\ \E e \in TickEnvs :
           ui' = update_preview([ui EXCEPT !.calls = <<>>,
                                           !.scheduled = @ - 1], e, now)
    /\ BufferBound(ui')
    /\ now' = IF ui'.pending THEN now ELSE 0
    /\ UNCHANGED <<devvars, cmvars, fmvars, svvars, tmvars>>

\* Time passes while a tick is scheduled; the countdown worker, which
\* wakes every 0.1 s, has run at the new clock value.
Advance ==
    /\ ui.pending
    /\ ui.release_event = NoWidget
    /\ now < ui.timer_end + MaxLate
    /\ now' = now + 1
    /\ ui' = update_timer(ui, now + 1)
    /\ UNCHANGED <<devvars, cmvars, fmvars, svvars, tmvars>>

AcceptButton ==
    /\ ui.page = "review"
    /\ ui.release_event = NoWidget
    /\ ui' = accept_button([ui EXCEPT !.calls = <<>>])
    /\ UNCHANGED <<now, devvars, cmvars, fmvars, svvars, tmvars>>

RetakeButton ==
    /\ ui.page = "review"
    /\ ui.release_event = NoWidget
    /\ ui.sessions < MaxSessions
    /\ \E e \in SessionEnvs :
           /\ ui' = retake_button(ui, e, 0)
           /\ now' = IF ui'.pending THEN e.dt ELSE 0
    /\ BufferBound(ui')
    /\ UNCHANGED <<devvars, cmvars, fmvars, svvars, tmvars>>

CancelButton ==
    /\ ui.page \in {"review", "keyboard"}
    /\ ui.release_event = NoWidget
    /\ ui' = cancel_button([ui EXCEPT !.calls = <<>>])
    /\ UNCHANGED <<now, devvars, cmvars, fmvars, svvars, tmvars>>

\* The keyboard's enter key: save.
Save ==
    /\ ui.page = "keyboard"
    /\ ui.release_event = NoWidget
    /\ ui' = save([ui EXCEPT !.calls = <<>>])
    /\ UNCHANGED <<now, devvars, cmvars, fmvars, svvars, tmvars>>

Next ==
    \/ HandleButtonPress
    \/ ButtonRelease
    \/ Tick
    \/ Advance
    \/ AcceptButton
    \/ RetakeButton
    \/ CancelButton
    \/ Save

Spec == Init /\ [][Next]_vars

\* ---------------------------------------------------------------------
\* Properties of the session manager (Spec)
\* ---------------------------------------------------------------------

\* C2: when a session has ended in Failed and the manager is back on the
\* home page, release() has been invoked on the session's camera.
C2_FailedSessionReleased ==
    (ui.page = "home" /\ ui.lastEnd = "failed") => ui.relCalls >= 1

\* C3: a session ended by cancel or retake has had release() invoked
\* exactly once on its camera, both when it ends and when the next
\* session's _initialize_camera begins.
C3_CancelRetakeReleasedOnce ==
    /\ ui.lastEnd = "cancel" => ui.relCalls = 1
    /\ ui.prevEnd \in {"cancel", "retake"} => ui.prevRel = 1

\* A session begun by retake is polling.
C3_Witness ==
    /\ ui.prevEnd = "retake"
    /\ ui.prevRel = 1
    /\ ui.page = "preview"
    /\ ui.pending

\* C4: at most one camera object is open: the objects the manager has
\* replaced while initialized and never released, plus self.camera if it
\* is initialized.
C4_AtMostOneOpenDevice ==
    ui.orphans + (IF CanonCamera_is_initialized(ui.camera) THEN 1 ELSE 0) <= 1

\* C5: the manager never calls capture_frame or capture_picture on a
\* camera object after release() was called on it.
C5_NoCaptureAfterRelease == ~ui.useAfterRelease

\* The previous session's camera was released, and the manager is
\* capturing again, from the camera initialized since.
C5_Witness ==
    /\ ui.prevRel >= 1
    /\ ui.pending
    /\ ~ui.relSinceInit
    /\ CanonCamera_is_initialized(ui.camera)

\* C15: the picture a Picture session hands to review was captured in
\* that session, at or after its start plus the lead-in.
C15_PictureAfterLeadIn ==
    (ui.page = "review" /\ ui.pressed_button = "picture"
                        /\ ui.last_picture_frame # NoFrame) =>
        /\ ui.pictureSession = ui.sessions
        /\ ui.last_picture_frame >= ui.timer_start + PictureLeadIn

\* C16: a Picture session never reaches review with no picture.
C16_NoEmptyPictureReview ==
    (ui.page = "review" /\ ui.pressed_button = "picture") =>
        ui.last_picture_frame # NoFrame

\* C17: while a session is polling, no step of that session (poll tick,
\* recovery, countdown pass, passing of time) changes timer_end.
C17_DeadlineFixed ==
    [][ (ui.pending /\ ui'.sessions = ui.sessions) =>
            ui'.timer_end = ui.timer_end ]_vars

\* C17 witness: a polling session whose countdown has run and which has
\* buffered a frame, its deadline being the one _start_timer set.
C17_Witness ==
    /\ ui.pending
    /\ ui.timer_text # NoText
    /\ ui.boomerang_frames # <<>>
    /\ ui.pressed_button = "boomerang"
    /\ ui.timer_end - ui.timer_start \in
           {BoomerangDuration, BoomerangDuration + 1}

\* new is old, or old with one frame appended.
IsAppend(old, new) ==
    \/ new = old
    \/ /\ Len(new) = Len(old) + 1
       /\ SubSeq(new, 1, Len(old)) = old

\* C18: every step of a polling session changes video_frames and
\* boomerang_frames by appending at most one frame at the end; the tick
\* that completes a Boomerang session, which replaces boomerang_frames by
\* their arrangement for review, is the session's terminal step.
C18_BuffersAppendOnly ==
    [][ (ui.pending /\ ui'.sessions = ui.sessions) =>
            /\ IsAppend(ui.video_frames, ui'.video_frames)
            /\ ui'.page # "review" =>
                   IsAppend(ui.boomerang_frames, ui'.boomerang_frames) ]_vars

\* C18 witness: a polling Video session has buffered two frames.
C18_Witness ==
    /\ ui.pending
    /\ ui.pressed_button = "video"
    /\ Len(ui.video_frames) >= 2

\* C19: once a Boomerang or Video session has ended in Failed, its frame
\* buffers are empty.
C19_FailedSessionDiscardsFrames ==
    (ui.lastEnd = "failed" /\ ui.pressed_button \in {"boomerang", "video"}) =>
        /\ ui.boomerang_frames = <<>>
        /\ ui.video_frames = <<>>

\* C23: a session that has started polling goes on until it is Completed
\* (review) or Failed: while it is on the preview page and has not
\* Failed, a poll tick is scheduled.  (A state without one has no next
\* step: nothing else runs update_preview.)
C23_PollingGoesOn ==
    (ui.page = "preview" /\ ui.lastEnd # "failed") => ui.pending

\* What the latest run of update_preview did: the part of calls after the
\* last "update_preview" (nothing if update_preview has not run).
TickCalls(s) ==
    LET I == {i \in DOMAIN s.calls : s.calls[i] = "update_preview"}
    IN  IF I = {} THEN <<>>
        ELSE LET last_i == CHOOSE i \in I : \A j \in I : j <= i
             IN  SubSeq(s.calls, last_i + 1, Len(s.calls))

Has(q, x) == \E i \in DOMAIN q : q[i] = x

Count(q, x) == Cardinality({i \in DOMAIN q : q[i] = x})

\* C24: a poll tick whose preview capture fails does one recovery: one
\* release(), then one _initialize_camera; the session is declared Failed
\* (_handle_camera_error) if and only if the initialization or the
\* readiness test of that recovery failed.
C24_OneRecoveryPerFailure ==
    LET T == TickCalls(ui)
    IN  Has(T, "recover") =>
            /\ Count(T, "recover") = 1
            /\ Count(T, "release") = 1
            /\ Count(T, "initialize") = 1
            /\ SubSeq(T, 1, 4) = <<"capture_frame", "recover", "release", "initialize">>
            /\ Has(T, "error") <=>
                   (Has(T, "initialize:failed") \/ Has(T, "ready:failed"))
            /\ Has(T, "error") <=> ui.lastEnd = "failed"
            /\ Count(T, "error") <= 1

\* C24 witness: a tick's capture failed after frames were buffered, and
\* the recovery succeeded after failed attempts: no error is shown.
C24_Witness ==
    /\ Has(TickCalls(ui), "recover")
    /\ Has(TickCalls(ui), "ready:ok")
    /\ Count(TickCalls(ui), "capture_frame") > 2
    /\ ui.lastEnd = "none"
    /\ ui.boomerang_frames # <<>>

\* The place of the first call x in the log q (0: not called).
First(q, x) ==
    IF Has(q, x)
    THEN CHOOSE i \in DOMAIN q : q[i] = x /\ \A j \in 1..(i - 1) : q[j] # x
    ELSE 0

\* C25: the tick that finds the deadline passed calls camera.release()
\* and then review_page, in every mode; review_page is called once per
\* session, by that tick, after which no tick is scheduled.
C25_ReleasedThenReviewedOnce ==
    /\ ui.reviews <= 1
    /\ ui.reviews = 1 => ui.lastEnd # "failed"
    /\ ui.page = "review" =>
           /\ ui.reviews = 1
           /\ ~ui.pending
           /\ Count(TickCalls(ui), "review") = 1
           /\ Count(TickCalls(ui), "release") = 1
           /\ First(TickCalls(ui), "release") < First(TickCalls(ui), "review")
           /\ ~CanonCamera_is_initialized(ui.camera)

\* C25 witness: a video session handed its frames to review at the
\* deadline.
C25_Witness ==
    /\ ui.page = "review"
    /\ ui.pressed_button = "video"
    /\ ui.video_frames # <<>>
    /\ Has(TickCalls(ui), "review")

\* C26: a tick is scheduled only for a session whose initialize()
\* succeeded, a session whose initialization failed is Failed without a
\* tick, and the deadline of a polling session is its start plus 3 s
\* (picture), 4 s (boomerang) or 10 s (video).
C26_ClockStartedAfterInitialize ==
    /\ (Has(ui.calls, "initialize:failed") /\ ~Has(ui.calls, "recover")) =>
           (~Has(ui.calls, "update_preview") /\ ui.lastEnd = "failed" /\ ~ui.pending)
    /\ Has(ui.calls, "start_timer") =>
           First(ui.calls, "initialize:ok") < First(ui.calls, "start_timer")
    /\ ui.pending =>
           ui.timer_end = ui.timer_start + timer_durations(ui.pressed_button)

\* C27: at most one update_preview callback is scheduled at any time, and
\* a tick is pending exactly when one is; the release event of the click
\* that began the session starts no second poll chain.
C27_OnePollChain ==
    /\ ui.scheduled <= 1
    /\ ui.pending <=> ui.scheduled = 1
    /\ Count(ui.calls, "start_timer") <= 1

\* C27 witness: a session is polling, with frames buffered, after the
\* release event of its click was dispatched.
C27_Witness ==
    /\ ui.scheduled = 1
    /\ ui.release_event = NoWidget
    /\ ui.sessions = 2
    /\ ui.video_frames # <<>>

\* C28: a picture session calls capture_picture once, in the tick that
\* finds the deadline passed: never while a further tick is scheduled,
\* and never a second time.
C28_OneStillAtDeadline ==
    ui.pressed_button = "picture" =>
        /\ ui.stills <= 1
        /\ ui.pending => ui.stills = 0
        /\ ui.page = "review" => ui.stills = 1

\* C29: the boomerang frames on the review page are forward, reversed,
\* forward of the N frames the session appended, in capture order (a
\* frame appended to an empty buffer is named by its place, 1..N).
C29_ReviewedBoomerangArranged ==
    (ui.page = "review" /\ ui.pressed_button = "boomerang") =>
        \E N \in 0..Len(ui.boomerang_frames) :
            LET F == [i \in 1..N |-> i]
            IN  ui.boomerang_frames = F \o Reverse(F) \o F

\* C31: a session that begins polling from the home page (after a save,
\* a cancel or a Failed session; a retake clears the buffers itself)
\* finds boomerang_frames and video_frames empty and last_picture_frame
\* unset.
C31_SessionStartsWithEmptyBuffers ==
    [][ ( /\ ui.page = "home"
          /\ ui'.sessions = ui.sessions + 1
          /\ Has(ui'.calls, "start_timer") )
        => ( /\ ui.boomerang_frames = <<>>
             /\ ui.video_frames = <<>>
             /\ ui.last_picture_frame = NoFrame ) ]_vars

\* =====================================================================
\* SpecArrange: CameraManager._arrange_boomerang_frames on every frame
\* list of up to MaxSeqLen frames
\* =====================================================================
FrameNames == {"A", "B", "C"}

FrameLists == UNION { [1..n -> FrameNames] : n \in 0..MaxSeqLen }

ArrangeInit ==
    /\ frames \in FrameLists
    /\ complete_boomerang = <<>>
    /\ cm_pc = "idle"
    /\ DevIdle
    /\ TmIdle
    /\ MgrIdle
    /\ FmIdle
    /\ SvIdle

ArrangeBoomerangFrames ==
    /\ cm_pc = "idle"
    /\ complete_boomerang' = CameraManager_arrange_boomerang_frames(frames)
    /\ cm_pc' = "returned"
    /\ UNCHANGED <<frames, devvars, mgrvars, fmvars, svvars, tmvars>>

ArrangeNext == ArrangeBoomerangFrames

SpecArrange == ArrangeInit /\ [][ArrangeNext]_vars

\* C14: the arrangement of N frames has length 3N: the frames, then the
\* frames in reverse order, then the frames again, nothing dropped at the
\* seams; <<A, B, C>> gives <<A, B, C, C, B, A, A, B, C>>.
C14_ForwardReverseForward ==
    cm_pc = "returned" =>
        LET N == Len(frames)
        IN  /\ Len(complete_boomerang) = 3 * N
            /\ \A k \in 1..N :
                   /\ complete_boomerang[k] = frames[k]
                   /\ complete_boomerang[N + k] = frames[N + 1 - k]
                   /\ complete_boomerang[2 * N + k] = frames[k]
            /\ frames = <<"A", "B", "C">> =>
                   complete_boomerang =
                       <<"A", "B", "C", "C", "B", "A", "A", "B", "C">>

\* C14 witness: the call returned for <<A, B, C>>.
C14_Witness ==
    /\ cm_pc = "returned"
    /\ frames = <<"A", "B", "C">>
    /\ Len(complete_boomerang) = 9

\* =====================================================================
\* SpecCounts: save tasks (_save_and_send) calling
\* FileManager.increment_count and get_save_path, statement by statement
\* =====================================================================
CountsInit ==
    /\ FmIdle
    /\ SvIdle
    /\ DevIdle
    /\ TmIdle
    /\ MgrIdle
    /\ CmIdle

\* A save task begins increment_count(media_type).
IncrementBegin(k) ==
    /\ task[k].pc = "idle"
    /\ Len(returned) + Cardinality({j \in Tasks : task[j].pc # "idle"}) < MaxCalls
    /\ \E m \in MediaTypes :
           task' = [task EXCEPT ![k] = [@ EXCEPT !.pc = "load", !.media_type = m,
                                                 !.began = Len(returned)]]
    /\ UNCHANGED <<counts_file, returned, got, devvars, mgrvars, cmvars, svvars, tmvars>>

\* counts = cls._load_counts(); counts[media_type] = ... + 1
IncrementLoad(k) ==
    /\ task[k].pc = "load"
    /\ task' = [task EXCEPT ![k] =
                   [@ EXCEPT !.pc = "save",
                             !.counts = FileManager_incremented(
                                            FileManager_load_counts(
                                                counts_file, MaxDepth).counts,
                                            task[k].media_type)]]
    /\ UNCHANGED <<counts_file, returned, got, devvars, mgrvars, cmvars, svvars, tmvars>>

\* cls._save_counts(counts)
IncrementSave(k) ==
    /\ task[k].pc = "save"
    /\ counts_file' = ValidFile(task[k].counts)
    /\ task' = [task EXCEPT ![k] = [@ EXCEPT !.pc = "return"]]
    /\ UNCHANGED <<returned, got, devvars, mgrvars, cmvars, svvars, tmvars>>

\* return counts[media_type], and the caller's get_save_path
IncrementReturn(k) ==
    /\ task[k].pc = "return"
    /\ LET m     == task[k].media_type
           count == task[k].counts[m]
       IN  returned' = Append(returned,
                              <<m, count, FileManager_get_save_path(m, count),
                                task[k].began>>)
    /\ task' = [task EXCEPT ![k] = TaskIdle]
    /\ UNCHANGED <<counts_file, got, devvars, mgrvars, cmvars, svvars, tmvars>>

CountsNext ==
    \E k \in Tasks :
        \/ IncrementBegin(k)
        \/ IncrementLoad(k)
        \/ IncrementSave(k)
        \/ IncrementReturn(k)

SpecCounts == CountsInit /\ [][CountsNext]_vars

\* C20: two calls of increment_count for the same mode return different
\* counts, the later call the greater one when it began after the earlier
\* had returned, and their save paths differ.
C20_CountsStrictlyIncrease ==
    \A i, j \in DOMAIN returned :
        (i < j /\ returned[i][1] = returned[j][1]) =>
            /\ returned[i][2] # returned[j][2]
            /\ returned[j][4] >= i => returned[i][2] < returned[j][2]
            /\ returned[i][3] # returned[j][3]

\* C21: get_save_path(mode, count) is the mode's save directory, the
\* count, and the extension .jpeg for picture, .mp4 for video and .jpeg
\* for boomerang.
C21_SavePathExtension ==
    \A i \in DOMAIN returned :
        LET m == returned[i][1]
        IN  returned[i][3] =
                <<SAVE_DIRS(m), returned[i][2],
                  IF m = "video" THEN ".mp4" ELSE ".jpeg">>

\* =====================================================================
\* SpecGetCount: FileManager.get_count on every state of the counts file
\* =====================================================================
\* The counts files: missing, not JSON, or an object with counts up to
\* MaxCount for some of the media types.
FileStates ==
    {MissingFile, InvalidFile} \cup
    { ValidFile(f) : f \in UNION { [S -> 0..MaxCount] : S \in SUBSET MediaTypes } }

GetCountInit ==
    /\ counts_file \in FileStates
    /\ got = NoCall
    /\ task = [k \in Tasks |-> TaskIdle]
    /\ returned = <<>>
    /\ SvIdle
    /\ DevIdle
    /\ TmIdle
    /\ MgrIdle
    /\ CmIdle

GetCount ==
    \E m \in MediaTypes :
        LET r == FileManager_get_count(counts_file, m)
        IN  /\ counts_file' = r.file
            /\ got' = [ media_type |-> m, pre |-> counts_file,
                        ret |-> r.ret, exc |-> r.exc ]
            /\ UNCHANGED <<task, returned, devvars, mgrvars, cmvars, svvars, tmvars>>

GetCountNext == GetCount

SpecGetCount == GetCountInit /\ [][GetCountNext]_vars

\* C22: get_count(mode) returns a count whatever the counts file holds;
\* 0 when the file was missing, which is then created with all counters
\* 0, and 0 when the file has no entry for the mode.
C22_GetCountReturns ==
    got.media_type # "None" =>
        /\ ~got.exc
        /\ got.pre.kind = "missing" =>
               got.ret = 0 /\ counts_file = ValidFile(default_counts)
        /\ (got.pre.kind = "valid" /\ got.media_type \notin DOMAIN got.pre.counts) =>
               got.ret = 0

\* =====================================================================
\* SpecSave: the save threads started by save(), statement by statement,
\* beside the UI thread
\* =====================================================================
\* The addresses the user may enter.
Addresses == {"a@x", "b@x"}

\* _handle_button_press and preview_page: a session begins.
Sv_handle_button_press(s, m) ==
    [s EXCEPT !.pressed_button = m, !.session = @ + 1, !.page = "preview"]

\* The capture handlers up to the deadline: the session's frames (or its
\* picture) are in the buffer of its mode, and review_page is shown.
Sv_handle_media_capture(s) ==
    [s EXCEPT !.buffers[s.pressed_button] = s.session, !.page = "review"]

\* UserInterface._clear_media_buffers
Sv_clear_media_buffers(s) ==
    [s EXCEPT !.buffers = [m \in MediaTypes |-> 0]]

\* UserInterface.accept_button
Sv_accept_button(s) == [s EXCEPT !.page = "keyboard"]

\* UserInterface.retake_button
Sv_retake_button(s) ==
    [Sv_clear_media_buffers(s) EXCEPT !.session = @ + 1, !.page = "preview"]

\* UserInterface.cancel_button
Sv_cancel_button(s) == [Sv_clear_media_buffers(s) EXCEPT !.page = "home"]

\* UserInterface.save: the address is stored, thread k is started and the
\* home page is shown.
Sv_save(s, address, k) ==
    [s EXCEPT !.user_email = address,
              !.page = "home",
              !.threads[k] = [SaveIdle EXCEPT
                                 !.pc = "increment",
                                 !.accepted = [ session    |-> s.session,
                                                media_type |-> s.pressed_button,
                                                email      |-> address ]]]

\* _save_and_send: count = FileManager.increment_count(self.pressed_button)
save_and_send_increment_count(s, k) ==
    LET counts == FileManager_incremented(s.counts, s.pressed_button)
    IN  [s EXCEPT !.counts = counts,
                  !.threads[k].count = Get(counts, s.pressed_button),
                  !.threads[k].pc = "path"]

\* _save_and_send: self.media_path = FileManager.get_save_path(...)
save_and_send_get_save_path(s, k) ==
    [s EXCEPT !.media_path = FileManager_get_save_path(s.pressed_button,
                                                       s.threads[k].count),
              !.threads[k].pc = "save"]

\* _save_and_send: save_methods[self.pressed_button]().  _save_picture,
\* _save_boomerang and _save_video write the buffer of their mode to
\* self.media_path, and return at once if the buffer is empty.  out =
\* "raise": writing the file raises, and _save_and_send goes to its
\* except and finally clauses.
save_and_send_save_methods(s, k, out) ==
    LET m == s.pressed_button
    IN  IF s.buffers[m] = 0
        THEN [s EXCEPT !.threads[k].save = "nothing",
                       !.threads[k].pc = "watermark"]
        ELSE IF out = "raise"
        THEN [s EXCEPT !.threads[k].save = "raised",
                       !.threads[k].pc = "finally"]
        ELSE [s EXCEPT !.threads[k].saved =
                           [ path |-> s.media_path, media_type |-> m,
                             artifact |-> s.buffers[m] ],
                       !.threads[k].save = "ok",
                       !.threads[k].pc = "watermark"]

\* _save_and_send: the picture or the video watermark is applied to
\* self.media_path.  It fails if the thread wrote no file there, or if
\* out = "failed".  apply_picture_watermark then returns False, which
\* _save_and_send does not look at; apply_video_watermark raises.
save_and_send_watermark(s, k, out) ==
    LET kind   == IF s.pressed_button = "picture" THEN "picture" ELSE "video"
        exists == s.threads[k].saved # NoSave /\ s.threads[k].saved.path = s.media_path
        ok     == exists /\ out = "ok"
    IN  [s EXCEPT !.threads[k].marked = IF ok THEN [ path |-> s.media_path,
                                                      kind |-> kind ]
                                              ELSE @,
                  !.threads[k].mark = IF ok THEN "ok" ELSE "failed",
                  !.threads[k].pc = IF ok \/ kind = "picture" THEN "send"
                                                              ELSE "finally"]

\* UserInterface.send_email
send_email(s, k) ==
    IF s.media_path # NoPath /\ s.user_email # "None"
    THEN [s EXCEPT !.threads[k].mailed = [ to |-> s.user_email,
                                           path |-> s.media_path,
                                           media_type |-> s.pressed_button ],
                   !.user_email = "None",
                   !.threads[k].pc = "finally"]
    ELSE [s EXCEPT !.user_email = "None", !.threads[k].pc = "finally"]

\* _save_and_send: finally
save_and_send_finally(s, k) ==
    [s EXCEPT !.user_email = "None", !.threads[k].pc = "done"]

SaveInit ==
    /\ sv = SV_new
    /\ DevIdle
    /\ TmIdle
    /\ MgrIdle
    /\ CmIdle
    /\ FmIdle

SvHandleButtonPress ==
    /\ sv.page = "home"
    /\ sv.session < MaxSessions
    /\ \E m \in MediaTypes : sv' = Sv_handle_button_press(sv, m)
    /\ UNCHANGED <<devvars, mgrvars, cmvars, fmvars, tmvars>>

SvHandleMediaCapture ==
    /\ sv.page = "preview"
    /\ sv' = Sv_handle_media_capture(sv)
    /\ UNCHANGED <<devvars, mgrvars, cmvars, fmvars, tmvars>>

SvAcceptButton ==
    /\ sv.page = "review"
    /\ sv' = Sv_accept_button(sv)
    /\ UNCHANGED <<devvars, mgrvars, cmvars, fmvars, tmvars>>

SvRetakeButton ==
    /\ sv.page = "review"
    /\ sv.session < MaxSessions
    /\ sv' = Sv_retake_button(sv)
    /\ UNCHANGED <<devvars, mgrvars, cmvars, fmvars, tmvars>>

SvCancelButton ==
    /\ sv.page \in {"review", "keyboard"}
    /\ sv' = Sv_cancel_button(sv)
    /\ UNCHANGED <<devvars, mgrvars, cmvars, fmvars, tmvars>>

\* The keyboard's enter key: save starts the next thread.
SvSave ==
    /\ sv.page = "keyboard"
    /\ \E k \in Tasks, address \in Addresses :
           /\ sv.threads[k].pc = "idle"
           /\ \A j \in Tasks : j < k => sv.threads[j].pc # "idle"
           /\ sv' = Sv_save(sv, address, k)
    /\ UNCHANGED <<devvars, mgrvars, cmvars, fmvars, tmvars>>

SaveIncrementCount(k) ==
    /\ sv.threads[k].pc = "increment"
    /\ sv' = save_and_send_increment_count(sv, k)
    /\ UNCHANGED <<devvars, mgrvars, cmvars, fmvars, tmvars>>

SaveGetSavePath(k) ==
    /\ sv.threads[k].pc = "path"
    /\ sv' = save_and_send_get_save_path(sv, k)
    /\ UNCHANGED <<devvars, mgrvars, cmvars, fmvars, tmvars>>

SaveSaveMethods(k) ==
    /\ sv.threads[k].pc = "save"
    /\ \E out \in {"ok", "raise"} : sv' = save_and_send_save_methods(sv, k, out)
    /\ UNCHANGED <<devvars, mgrvars, cmvars, fmvars, tmvars>>

SaveWatermark(k) ==
    /\ sv.threads[k].pc = "watermark"
    /\ \E out \in {"ok", "failed"} : sv' = save_and_send_watermark(sv, k, out)
    /\ UNCHANGED <<devvars, mgrvars, cmvars, fmvars, tmvars>>

SaveSendEmail(k) ==
    /\ sv.threads[k].pc = "send"
    /\ sv' = send_email(sv, k)
    /\ UNCHANGED <<devvars, mgrvars, cmvars, fmvars, tmvars>>

SaveFinally(k) ==
    /\ sv.threads[k].pc = "finally"
    /\ sv' = save_and_send_finally(sv, k)
    /\ UNCHANGED <<devvars, mgrvars, cmvars, fmvars, tmvars>>

SaveNext ==
    \/ SvHandleButtonPress
    \/ SvHandleMediaCapture
    \/ SvAcceptButton
    \/ SvRetakeButton
    \/ SvCancelButton
    \/ SvSave
    \/ \E k \in Tasks : SaveIncrementCount(k)
    \/ \E k \in Tasks : SaveGetSavePath(k)
    \/ \E k \in Tasks : SaveSaveMethods(k)
    \/ \E k \in Tasks : SaveWatermark(k)
    \/ \E k \in Tasks : SaveSendEmail(k)
    \/ \E k \in Tasks : SaveFinally(k)

SpecSave == SaveInit /\ [][SaveNext]_vars

\* C30: a save task that has finished, its save method and its
\* watermark call not having failed on their own, saved the artifact of
\* the session it was started for, under that session's mode,
\* watermarked that file and handed it to send_email for the address
\* entered for that session.
C30_SaveTaskKeepsItsSession ==
    \A k \in Tasks :
        LET t == sv.threads[k]
            path == FileManager_get_save_path(t.accepted.media_type, t.count)
        IN  (t.pc = "done" /\ t.save # "raised"
                           /\ (t.mark = "failed" => t.saved = NoSave)) =>
                /\ t.saved = [ path |-> path,
                               media_type |-> t.accepted.media_type,
                               artifact |-> t.accepted.session ]
                /\ t.marked = [ path |-> path,
                                kind |-> IF t.accepted.media_type = "picture"
                                         THEN "picture" ELSE "video" ]
                /\ t.mailed = [ to |-> t.accepted.email, path |-> path,
                                media_type |-> t.accepted.media_type ]

\* =====================================================================
\* SpecTimer: the countdown threads started by _start_timer, statement
\* by statement, beside the UI thread
\* =====================================================================
\* The UI thread destroys the preview frame, and the timer label in it
\* (review_page, _handle_camera_error), and shows another page.
Tm_destroy_frame(s, page) ==
    [s EXCEPT !.page = page,
              !.label_exists = FALSE,
              !.destroyed_by = IF s.label_exists THEN "ui" ELSE @]

\* preview_page with a camera that initializes, for mode m:
\* _setup_preview_frame makes a new timer label, _start_timer sets
\* timer_start and timer_end, runs the first update_preview (first =
\* "failed": it ends in _handle_camera_error and the home page) and then
\* starts thread k.
Tm_preview_page(s, m, first, k) ==
    LET s1 == [s EXCEPT !.page = "preview",
                        !.session = @ + 1,
                        !.timer_label = s.session + 1,
                        !.label_exists = TRUE,
                        !.destroyed_by = "None",
                        !.timer_start = s.clock,
                        !.timer_end = s.clock + timer_durations(m)]
        s2 == IF first = "failed" THEN Tm_destroy_frame(s1, "home") ELSE s1
    IN  [s2 EXCEPT !.workers[k] = [WorkerIdle EXCEPT !.pc = "while",
                                                     !.session = s1.session]]

\* _update_timer: while time.time() < self.timer_end, and the remaining
\* time computed from self.timer_end.
update_timer_while(s, k) ==
    [s EXCEPT !.workers[k].readLater = @ \/ s.session # s.workers[k].session,
              !.workers[k].pc = IF s.clock < s.timer_end THEN "exists"
                                                         ELSE "exists_after"]

\* _update_timer: if self.timer_label and self.timer_label.winfo_exists()
update_timer_exists(s, k) ==
    [s EXCEPT !.workers[k].pc = IF s.label_exists THEN "configure" ELSE "sleep"]

\* _update_timer: self.timer_label.configure(text=...); on a destroyed
\* label Tk raises TclError, which ends the thread.
update_timer_configure(s, k) ==
    IF s.label_exists
    THEN [s EXCEPT !.workers[k].pc = "sleep"]
    ELSE [s EXCEPT !.workers[k].pc = "raised",
                   !.workers[k].usedDestroyed = @ \/ s.destroyed_by = "ui"]

\* _update_timer: time.sleep(0.1)
update_timer_sleep(s, k) == [s EXCEPT !.workers[k].pc = "while"]

\* _update_timer: the test after the loop
update_timer_exists_after(s, k) ==
    [s EXCEPT !.workers[k].pc = IF s.label_exists THEN "destroy" ELSE "done"]

\* _update_timer: self.timer_label.after(0, self.timer_label.destroy()):
\* destroy() is called at once, by the worker.
update_timer_destroy(s, k) ==
    [s EXCEPT !.label_exists = FALSE,
              !.destroyed_by = IF s.label_exists THEN "worker" ELSE @,
              !.workers[k].usedDestroyed =
                  @ \/ (~s.label_exists /\ s.destroyed_by = "ui"),
              !.workers[k].pc = "done"]

TimerInit ==
    /\ tm = TM_new
    /\ DevIdle
    /\ MgrIdle
    /\ CmIdle
    /\ FmIdle
    /\ SvIdle

\* A home page button (on the review page: after cancel, or accept and
\* save, which touch nothing the workers use) or the retake button: a
\* session begins polling.
TmPreviewPage ==
    /\ tm.page \in {"home", "review"}
    /\ \E m \in MediaTypes, first \in {"ok", "failed"}, k \in Workers :
           /\ tm.workers[k].pc = "idle"
           /\ \A j \in Workers : j < k => tm.workers[j].pc # "idle"
           /\ tm' = Tm_preview_page(tm, m, first, k)
    /\ UNCHANGED <<devvars, mgrvars, cmvars, fmvars, svvars>>

\* The tick that finds the deadline passed shows the review page.
TmReviewPage ==
    /\ tm.page = "preview"
    /\ tm.clock > tm.timer_end
    /\ tm' = Tm_destroy_frame(tm, "review")
    /\ UNCHANGED <<devvars, mgrvars, cmvars, fmvars, svvars>>

\* A tick fails and the user answers OK: _handle_camera_error.
TmHandleCameraError ==
    /\ tm.page = "preview"
    /\ tm' = Tm_destroy_frame(tm, "home")
    /\ UNCHANGED <<devvars, mgrvars, cmvars, fmvars, svvars>>

TmAdvance ==
    /\ tm.timer_end # NoTime
    /\ tm.clock < tm.timer_end + MaxLate
    /\ tm' = [tm EXCEPT !.clock = @ + 1]
    /\ UNCHANGED <<devvars, mgrvars, cmvars, fmvars, svvars>>

UpdateTimerWhile(k) ==
    /\ tm.workers[k].pc = "while"
    /\ tm' = update_timer_while(tm, k)
    /\ UNCHANGED <<devvars, mgrvars, cmvars, fmvars, svvars>>

UpdateTimerExists(k) ==
    /\ tm.workers[k].pc = "exists"
    /\ tm' = update_timer_exists(tm, k)
    /\ UNCHANGED <<devvars, mgrvars, cmvars, fmvars, svvars>>

UpdateTimerConfigure(k) ==
    /\ tm.workers[k].pc = "configure"
    /\ tm' = update_timer_configure(tm, k)
    /\ UNCHANGED <<devvars, mgrvars, cmvars, fmvars, svvars>>

UpdateTimerSleep(k) ==
    /\ tm.workers[k].pc = "sleep"
    /\ tm' = update_timer_sleep(tm, k)
    /\ UNCHANGED <<devvars, mgrvars, cmvars, fmvars, svvars>>

UpdateTimerExistsAfter(k) ==
    /\ tm.workers[k].pc = "exists_after"
    /\ tm' = update_timer_exists_after(tm, k)
    /\ UNCHANGED <<devvars, mgrvars, cmvars, fmvars, svvars>>

UpdateTimerDestroy(k) ==
    /\ tm.workers[k].pc = "destroy"
    /\ tm' = update_timer_destroy(tm, k)
    /\ UNCHANGED <<devvars, mgrvars, cmvars, fmvars, svvars>>

TimerNext ==
    \/ TmPreviewPage
    \/ TmReviewPage
    \/ TmHandleCameraError
    \/ TmAdvance
    \/ \E k \in Workers : UpdateTimerWhile(k)
    \/ \E k \in Workers : UpdateTimerExists(k)
    \/ \E k \in Workers : UpdateTimerConfigure(k)
    \/ \E k \in Workers : UpdateTimerSleep(k)
    \/ \E k \in Workers : UpdateTimerExistsAfter(k)
    \/ \E k \in Workers : UpdateTimerDestroy(k)

SpecTimer == TimerInit /\ [][TimerNext]_vars

\* C32: no countdown worker calls configure or destroy on a timer label
\* that the UI thread has destroyed.
C32_WorkerNeverUsesDestroyedLabel ==
    \A k \in Workers : ~tm.workers[k].usedDestroyed

\* The countdown workers that have been started and have not ended.
RunningWorkers ==
    {k \in Workers : tm.workers[k].pc \notin {"idle", "done", "raised"}}

\* C33: at most one countdown worker is running, and no worker reads a
\* timer_end assigned by a session later than its own.
C33_OneWorkerOwnDeadline ==
    /\ Cardinality(RunningWorkers) <= 1
    /\ \A k \in Workers : ~tm.workers[k].readLater

FirstSuccess(outs) ==
    IF AllAttemptsFailed(outs)
    THEN 0
    ELSE CHOOSE i \in 1..max_retries :
             /\ ~AttemptFailed(outs[i])
             /\ \A j \in 1..(i - 1) : AttemptFailed(outs[j])

Attempts(ev) == Count(ev, "init") + Count(ev, "VideoCapture")

\* C35: initialize() returns after at most 3 attempts to open the
\* device; if an attempt succeeds it returns True at the first that
\* does, having made exactly that many attempts, and the success is
\* followed by no further attempt, sleep or USB reset (the DSLR has
\* reset the port once per failed attempt before it, the webcam never);
\* otherwise it returns False after 3 attempts.
C35_InitializeStopsAtFirstSuccess ==
    last.op = "initialize" =>
        LET f == FirstSuccess(last.arg)
            n == Attempts(last.ev)
        IN  /\ n <= max_retries
            /\ ~last.exc
            /\ f # 0 => /\ last.ret = TRUE
                        /\ n = f
                        /\ last.ev[Len(last.ev)] \in {"init", "set"}
                        /\ Count(last.ev, "reset_usb") =
                               IF backend = "canon" THEN f - 1 ELSE 0
            /\ f = 0 => /\ last.ret = FALSE
                        /\ n = max_retries

\* The DSLR's initialize() failed once and succeeded at its second attempt.
C35_Witness ==
    /\ backend = "canon"
    /\ last.op = "initialize"
    /\ FirstSuccess(last.arg) = 2
    /\ last.ret = TRUE
    /\ Camera_is_initialized(backend, dev)

\* C36: in the DSLR's initialize(), between every two consecutive
\* attempts the helper processes are terminated and the USB port is reset.
C36_KillAndResetBetweenAttempts ==
    (backend = "canon" /\ last.op = "initialize") =>
        \A i, j \in DOMAIN last.ev :
            ( /\ i < j
              /\ last.ev[i] = "init"
              /\ last.ev[j] = "init"
              /\ \A k \in (i + 1)..(j - 1) : last.ev[k] # "init" ) =>
                /\ \E k \in (i + 1)..(j - 1) : last.ev[k] = "kill_gphoto2"
                /\ \E k \in (i + 1)..(j - 1) : last.ev[k] = "reset_usb"

\* C37: a webcam capture_frame() writes its frame to the recording
\* stream if and only if the read succeeded and a recording was active,
\* and then it writes exactly one; a successful start_video_recording()
\* begins with nothing written and no other call writes, so what is
\* written between start and stop is one frame per successful capture.
C37_WritesIffReadAndRecording ==
    (backend = "opencv" /\ last.pre.written < MaxFrames) =>
        /\ last.op = "capture_frame" =>
               /\ Has(last.ev, "write") <=>
                      (last.ret[1] = TRUE /\ OpenCVCamera_is_recording(last.pre))
               /\ dev.written = IF Has(last.ev, "write")
                                THEN last.pre.written + 1
                                ELSE last.pre.written
        /\ (last.op = "start_video_recording" /\ last.ret = TRUE) =>
               dev.written = 0
        /\ (last.op \notin {"capture_frame", "start_video_recording", "new"}) =>
               dev.written = last.pre.written

\* The second frame in a row was written to the stream of a recording.
C37_Witness ==
    /\ backend = "opencv"
    /\ last.op = "capture_frame"
    /\ OpenCVCamera_is_recording(last.pre)
    /\ last.ret[1] = TRUE
    /\ last.pre.written = 1
    /\ dev.written = 2

\* C38: after stop_video_recording() has returned, is_recording() is
\* false, whatever the library did during the stop.
C38_NotRecordingAfterStop ==
    last.op = "stop_video_recording" => ~Camera_is_recording(backend, dev)

=============================================================================
